---- MODULE Spec2Model ----
(***************************************************************************)
(* TOPSIS ranking: the library (core.py, driven by cli.py), the stand-alone *)
(* script (topsis.py) and the web handler (app.py).                         *)
(*                                                                          *)
(* Representation.                                                          *)
(*  - A Python string is a sequence of one-character strings.               *)
(*  - A DataFrame is [headers, rows]; a cell is a record [k, a, b, s]:      *)
(*      k = "str"   text s                                                  *)
(*      k = "num"   the number a                                            *)
(*      k = "score" the real sqrt(a) / (sqrt(a) + sqrt(b)), a : b reduced   *)
(*      k = "nan"   the float NaN                                           *)
(*  - Arithmetic is exact (real), not IEEE double: a normalised value       *)
(*    x / sqrt(n) is carried as x together with n, a distance as its        *)
(*    square times the product of all column denominators squared.          *)
(***************************************************************************)
EXTENDS Integers, Sequences, FiniteSets, TLC

MaxRows == 2
MaxVal == 1
MaxTokens == 2
MaxScale == 2

VARIABLES env, df, weights_s, impacts_s, fe, outcome

vars == <<env, df, weights_s, impacts_s, fe, outcome>>

(***************************************************************************)
(* Generic helpers                                                         *)
(***************************************************************************)
RECURSIVE SumSeq(_)
SumSeq(s) == IF s = <<>> THEN 0 ELSE Head(s) + SumSeq(Tail(s))

RECURSIVE ProdSeq(_)
ProdSeq(s) == IF s = <<>> THEN 1 ELSE Head(s) * ProdSeq(Tail(s))

RECURSIVE GCD(_, _)
GCD(a, b) == IF b = 0 THEN a ELSE GCD(b, a % b)

SeqMax(s) == CHOOSE m \in {s[i] : i \in 1..Len(s)} : \A i \in 1..Len(s) : s[i] <= m

SeqMin(s) == CHOOSE m \in {s[i] : i \in 1..Len(s)} : \A i \in 1..Len(s) : m <= s[i]

RECURSIVE SeqsOver(_, _)
SeqsOver(S, n) ==
    IF n = 0 THEN {<<>>}
    ELSE {<<x>> \o t : x \in S, t \in SeqsOver(S, n - 1)}

(***************************************************************************)
(* Python str operations                                                   *)
(***************************************************************************)
Contains(s, c) == \E i \in 1..Len(s) : s[i] = c

FirstIndex(s, c) == CHOOSE i \in 1..Len(s) : s[i] = c /\ \A j \in 1..(i - 1) : s[j] # c

RECURSIVE Split(_)
Split(s) ==
    IF Contains(s, ",")
    THEN LET i == FirstIndex(s, ",")
         IN  <<SubSeq(s, 1, i - 1)>> \o Split(SubSeq(s, i + 1, Len(s)))
    ELSE <<s>>

RECURSIVE LStrip(_)
LStrip(s) == IF s # <<>> /\ Head(s) = " " THEN LStrip(Tail(s)) ELSE s

RECURSIVE RStrip(_)
RStrip(s) ==
    IF s # <<>> /\ s[Len(s)] = " " THEN RStrip(SubSeq(s, 1, Len(s) - 1)) ELSE s

Strip(s) == RStrip(LStrip(s))

Digits == {"0", "1", "2", "3", "4", "5", "6", "7", "8", "9"}

DigitVal(c) ==
    CASE c = "0" -> 0 [] c = "1" -> 1 [] c = "2" -> 2 [] c = "3" -> 3
      [] c = "4" -> 4 [] c = "5" -> 5 [] c = "6" -> 6 [] c = "7" -> 7
      [] c = "8" -> 8 [] c = "9" -> 9

RECURSIVE DigitsVal(_)
DigitsVal(s) ==
    IF s = <<>> THEN 0
    ELSE 10 * DigitsVal(SubSeq(s, 1, Len(s) - 1)) + DigitVal(s[Len(s)])

AllDigits(s) == s # <<>> /\ \A i \in 1..Len(s) : s[i] \in Digits

Unsigned(t) == IF t # <<>> /\ Head(t) \in {"+", "-"} THEN Tail(t) ELSE t

\* float(tok) succeeds: optional sign, then digits (the part of Python's float
\* grammar the modelled alphabet can spell)
IsFloat(tok) == AllDigits(Unsigned(Strip(tok)))

FloatOf(tok) ==
    LET t == Strip(tok)
    IN  IF t # <<>> /\ Head(t) = "-" THEN 0 - DigitsVal(Tail(t))
        ELSE DigitsVal(Unsigned(t))

MapStrip(parts) == [i \in 1..Len(parts) |-> Strip(parts[i])]

FilterNonEmpty(parts) == SelectSeq(parts, LAMBDA x : x # <<>>)

(***************************************************************************)
(* DataFrame cells and column operations                                   *)
(***************************************************************************)
Str(t) == [k |-> "str", a |-> 0, b |-> 0, s |-> t]

Num(n) == [k |-> "num", a |-> n, b |-> 0, s |-> ""]

NaN == [k |-> "nan", a |-> 0, b |-> 0, s |-> ""]

NoFrame == [headers |-> <<>>, rows |-> <<>>]

NRows(d) == Len(d.rows)

\* df.shape[1]
NCols(d) == Len(d.headers)

\* pd.to_numeric(cell, errors="coerce") is not NaN
IsNumeric(c) == c.k = "num"

\* out.iloc[:, 1:].apply(pd.to_numeric): crit[i][j], j = 1..n_criteria
Crit(d) == [i \in 1..NRows(d) |-> [j \in 1..(NCols(d) - 1) |-> d.rows[i][j + 1].a]]

HasColumn(d, name) == \E p \in 1..NCols(d) : d.headers[p] = name

\* out[name] = values: an existing column of that name is overwritten in place,
\* otherwise a new last column is appended
SetColumn(d, name, vals) ==
    IF HasColumn(d, name)
    THEN LET p == CHOOSE q \in 1..NCols(d) : d.headers[q] = name
         IN  [headers |-> d.headers,
              rows |-> [i \in 1..NRows(d) |-> [d.rows[i] EXCEPT ![p] = vals[i]]]]
    ELSE [headers |-> Append(d.headers, name),
          rows |-> [i \in 1..NRows(d) |-> Append(d.rows[i], vals[i])]]

Column(d, name) ==
    LET p == CHOOSE q \in 1..NCols(d) : d.headers[q] = name
    IN  [i \in 1..NRows(d) |-> d.rows[i][p]]

(***************************************************************************)
(* The TOPSIS computation (identical in core.py, topsis.py and app.py)     *)
(***************************************************************************)
\* the squares forgotten: sqrt(crit.sum(axis=0))
Denom2NotSquared(crit, j) ==
    LET ss == SumSeq([i \in 1..Len(crit) |-> crit[i][j]])
    IN  IF ss = 0 THEN 1 ELSE ss

\* denom ** 2 per column: sum of squares, a zero norm replaced by 1.0
Denom2(crit, j) ==
    LET ss == SumSeq([i \in 1..Len(crit) |-> crit[i][j] * crit[i][j]])
    IN  IF ss = 0 THEN 1 ELSE ss

\* weighted[i][j] * denom[j]  (weighted = crit / denom * w)
Weighted(crit, weights) ==
    [i \in 1..Len(crit) |-> [j \in 1..Len(crit[i]) |-> crit[i][j] * weights[j]]]

WeightedCol(wt, j) == [i \in 1..Len(wt) |-> wt[i][j]]

\* ideal_best[col] * denom[col]; denom > 0, so max/min of the column carry over
IdealBest(wt, impacts, j) ==
    IF impacts[j] = <<"+">> THEN SeqMax(WeightedCol(wt, j)) ELSE SeqMin(WeightedCol(wt, j))

IdealWorst(wt, impacts, j) ==
    IF impacts[j] = <<"+">> THEN SeqMin(WeightedCol(wt, j)) ELSE SeqMax(WeightedCol(wt, j))

\* product of the squared denominators of every column but j
OtherDenoms(crit, n, j) ==
    ProdSeq([c \in 1..n |-> IF c = j THEN 1 ELSE Denom2(crit, c)])

\* ((weighted - ideal) ** 2).sum(axis=1)[i], times the product of all Denom2
DistSq(crit, wt, ideal, i) ==
    LET n == Len(ideal)
    IN  SumSeq([j \in 1..n |->
            (wt[i][j] - ideal[j]) * (wt[i][j] - ideal[j]) * OtherDenoms(crit, n, j)])

\* the distances swapped: d_best / (d_best + d_worst)
ScoreSwapped(dbest2, dworst2) ==
    IF dbest2 = 0 /\ dworst2 = 0 THEN NaN
    ELSE LET g == GCD(dbest2, dworst2)
         IN  [k |-> "score", a |-> dbest2 \div g, b |-> dworst2 \div g, s |-> ""]

\* d_worst / (d_best + d_worst) from the squared distances; 0.0 / 0.0 is NaN
Score(dbest2, dworst2) ==
    IF dbest2 = 0 /\ dworst2 = 0 THEN NaN
    ELSE LET g == GCD(dworst2, dbest2)
         IN  [k |-> "score", a |-> dworst2 \div g, b |-> dbest2 \div g, s |-> ""]

\* x > y for two scores: sqrt(xa)/(sqrt(xa)+sqrt(xb)) > sqrt(ya)/(sqrt(ya)+sqrt(yb))
\* iff sqrt(xa * yb) > sqrt(ya * xb); any comparison with NaN is false
ScoreGreater(x, y) ==
    /\ x.k = "score"
    /\ y.k = "score"
    /\ x.a * y.b > y.a * x.b

\* Series.rank(ascending=False, method="dense"): 1 + number of distinct larger
\* values; NaN keeps NaN (na_option="keep")
DenseRank(scores) ==
    [i \in 1..Len(scores) |->
        IF scores[i].k = "nan" THEN NaN
        ELSE Num(1 + Cardinality({scores[r] : r \in
                    {q \in 1..Len(scores) : ScoreGreater(scores[q], scores[i])}}))]

\* the score of every row
Scores(crit, weights, impacts) ==
    LET n == Len(weights)
        wt == Weighted(crit, weights)
        best == [j \in 1..n |-> IdealBest(wt, impacts, j)]
        worst == [j \in 1..n |-> IdealWorst(wt, impacts, j)]
    IN  [i \in 1..Len(crit) |->
            Score(DistSq(crit, wt, best, i), DistSq(crit, wt, worst, i))]

\* what a call returns or raises: exc = "none" and the frame, or the exception
\* class with the error kind; parse and weights record how far the call got (the
\* end of its vector parse, the weights its scoring function was called with)
Return(frame) ==
    [exc |-> "none", kind |-> "none", out |-> frame,
     parse |-> "notreached", weights |-> <<>>]

Raise(class, kind) ==
    [exc |-> class, kind |-> kind, out |-> NoFrame,
     parse |-> "notreached", weights |-> <<>>]

\* out["Topsis Score"] = score; out["Rank"] = rank(...).astype(int)
\* astype(int) raises IntCastingNaNError (a ValueError) on a NaN rank
AppendScoreAndRank(out, score) ==
    LET scored == SetColumn(out, "Topsis Score", score)
        rank == DenseRank(Column(scored, "Topsis Score"))
    IN  IF \E i \in 1..Len(rank) : rank[i].k = "nan"
        THEN Raise("IntCastingNaNError", "IntCastingNaN")
        ELSE Return(SetColumn(scored, "Rank", rank))

(***************************************************************************)
(* core.py: the library                                                    *)
(***************************************************************************)
Parsed(ws, is) == [kind |-> "none", weights |-> ws, impacts |-> is]

ParseFail(kind) == [kind |-> kind, weights |-> <<>>, impacts |-> <<>>]

ImpactSymbols == {<<"+">>, <<"-">>}

CoreParseWeightsImpacts(w_s, i_s) ==
    IF ~Contains(w_s, ",") \/ ~Contains(i_s, ",")
    THEN ParseFail("MalformedVectorSyntax")
    ELSE LET weights_raw == FilterNonEmpty(MapStrip(Split(w_s)))
             impacts_raw == FilterNonEmpty(MapStrip(Split(i_s)))
         IN  IF \E i \in 1..Len(weights_raw) : ~IsFloat(weights_raw[i])
             THEN ParseFail("NonNumericWeight")
             ELSE IF \E i \in 1..Len(impacts_raw) : impacts_raw[i] \notin ImpactSymbols
             THEN ParseFail("InvalidImpactSymbol")
             ELSE Parsed([i \in 1..Len(weights_raw) |-> FloatOf(weights_raw[i])],
                         impacts_raw)

CoreValidateInputDf(d) ==
    IF NCols(d) < 3 THEN "TooFewColumns"
    ELSE IF \E i \in 1..NRows(d) : \E j \in 2..NCols(d) : ~IsNumeric(d.rows[i][j])
    THEN "NonNumericCriterion"
    ELSE "none"

TopsisDataframe(d, weights, impacts) ==
    LET n_criteria == NCols(d) - 1
    IN  IF Len(weights) # n_criteria \/ Len(impacts) # n_criteria
        THEN Raise("TopsisError", "DimensionMismatch")
        ELSE AppendScoreAndRank(d, Scores(Crit(d), weights, impacts))

TopsisFromFile(e, d, w_s, i_s) ==
    IF e.file = "missing" THEN Raise("TopsisError", "FileNotFound")
    ELSE IF e.file = "unreadable" THEN Raise("TopsisError", "UnreadableFile")
    ELSE LET v == CoreValidateInputDf(d)
         IN  IF v # "none" THEN Raise("TopsisError", v)
             ELSE LET p == CoreParseWeightsImpacts(w_s, i_s)
                  IN  IF p.kind # "none"
                      THEN [Raise("TopsisError", p.kind) EXCEPT !.parse = p.kind]
                      ELSE [TopsisDataframe(d, p.weights, p.impacts) EXCEPT
                                !.parse = "none", !.weights = p.weights]

(***************************************************************************)
(* What a front-end run leaves behind                                      *)
(*   status  "notrun" | "success" | "error" (reported to the user) |       *)
(*           "crash" (an exception nobody caught: a traceback)             *)
(*   kind    the error kind                                                *)
(*   parse   what the vector parse of the run ended with ("notreached",    *)
(*           "none" for a returned pair, or its error kind)                *)
(*   weights the weight vector the scoring function was called with        *)
(*   out     the frame written by to_csv, written whether it was written,  *)
(*   emailed whether send_email sent it                                    *)
(***************************************************************************)
NotRun ==
    [status |-> "notrun", kind |-> "none", parse |-> "notreached", weights |-> <<>>,
     out |-> NoFrame, written |-> FALSE, emailed |-> FALSE]

\* the run ended before the vector parse
Stopped(status, kind) == [NotRun EXCEPT !.status = status, !.kind = kind]

\* the run ended in the vector parse
ParseStopped(status, kind) == [Stopped(status, kind) EXCEPT !.parse = kind]

\* the run called the scoring function with weights ws, which raised
ScoringStopped(status, kind, ws) ==
    [Stopped(status, kind) EXCEPT !.parse = "none", !.weights = ws]

\* the run wrote the scored frame
Written(frame, ws) ==
    [NotRun EXCEPT !.status = "success", !.parse = "none", !.weights = ws,
                   !.out = frame, !.written = TRUE]

\* cli.py main: only TopsisError is caught
CliMain(e, d, w_s, i_s) ==
    IF ~e.argc_ok THEN Stopped("error", "Usage")
    ELSE LET r == TopsisFromFile(e, d, w_s, i_s)
         IN  IF r.exc = "none" THEN Written(r.out, r.weights)
             ELSE [Stopped(IF r.exc = "TopsisError" THEN "error" ELSE "crash", r.kind)
                      EXCEPT !.parse = r.parse, !.weights = r.weights]

(***************************************************************************)
(* topsis.py: the stand-alone script; _die prints and raises SystemExit    *)
(***************************************************************************)
ScriptParseWeightsImpacts(w_s, i_s) ==
    IF ~Contains(w_s, ",") \/ ~Contains(i_s, ",")
    THEN ParseFail("MalformedVectorSyntax")
    ELSE LET weights_raw == FilterNonEmpty(MapStrip(Split(w_s)))
             impacts_raw == FilterNonEmpty(MapStrip(Split(i_s)))
         IN  IF \E i \in 1..Len(weights_raw) : ~IsFloat(weights_raw[i])
             THEN ParseFail("NonNumericWeight")
             ELSE IF \E i \in 1..Len(impacts_raw) : impacts_raw[i] \notin ImpactSymbols
             THEN ParseFail("InvalidImpactSymbol")
             ELSE Parsed([i \in 1..Len(weights_raw) |-> FloatOf(weights_raw[i])],
                         impacts_raw)

ScriptValidateInputDf(d) ==
    IF NCols(d) < 3 THEN "TooFewColumns"
    ELSE IF \E i \in 1..NRows(d) : \E j \in 2..NCols(d) : ~IsNumeric(d.rows[i][j])
    THEN "NonNumericCriterion"
    ELSE "none"

ScriptTopsis(d, weights, impacts) ==
    LET n_criteria == NCols(d) - 1
    IN  IF Len(weights) # n_criteria \/ Len(impacts) # n_criteria
        THEN Raise("SystemExit", "DimensionMismatch")
        ELSE AppendScoreAndRank(d, Scores(Crit(d), weights, impacts))

ScriptMain(e, d, w_s, i_s) ==
    IF ~e.argc_ok THEN Stopped("error", "Usage")
    ELSE IF e.file = "missing" THEN Stopped("error", "FileNotFound")
    ELSE IF e.file = "unreadable" THEN Stopped("error", "UnreadableFile")
    ELSE LET v == ScriptValidateInputDf(d)
         IN  IF v # "none" THEN Stopped("error", v)
             ELSE LET p == ScriptParseWeightsImpacts(w_s, i_s)
                  IN  IF p.kind # "none" THEN ParseStopped("error", p.kind)
                      ELSE LET r == ScriptTopsis(d, p.weights, p.impacts)
                           IN  IF r.exc = "none" THEN Written(r.out, p.weights)
                               ELSE IF r.exc = "SystemExit"
                               THEN ScoringStopped("error", r.kind, p.weights)
                               ELSE ScoringStopped("crash", r.kind, p.weights)

(***************************************************************************)
(* app.py: the web handler                                                 *)
(***************************************************************************)
AppParseWeightsImpacts(w_s, i_s) ==
    LET w_parts == MapStrip(Split(w_s))
        i_parts == MapStrip(Split(i_s))
    IN  IF \/ Len(w_parts) = 0
           \/ Len(i_parts) = 0
           \/ \E i \in 1..Len(w_parts) : w_parts[i] = <<>>
           \/ \E i \in 1..Len(i_parts) : i_parts[i] = <<>>
        THEN ParseFail("MalformedVectorSyntax")
        ELSE IF \E i \in 1..Len(w_parts) : ~IsFloat(w_parts[i])
        THEN ParseFail("NonNumericWeight")
        ELSE IF \E i \in 1..Len(i_parts) : i_parts[i] \notin ImpactSymbols
        THEN ParseFail("InvalidImpactSymbol")
        ELSE Parsed([i \in 1..Len(w_parts) |-> FloatOf(w_parts[i])], i_parts)

AppTopsis(d, weights, impacts) ==
    IF NCols(d) < 3 THEN Raise("ValueError", "TooFewColumns")
    ELSE IF \E i \in 1..NRows(d) : \E j \in 2..NCols(d) : ~IsNumeric(d.rows[i][j])
    THEN Raise("ValueError", "NonNumericCriterion")
    ELSE LET n == NCols(d) - 1
         IN  IF Len(weights) # n \/ Len(impacts) # n
             THEN Raise("ValueError", "DimensionMismatch")
             ELSE AppendScoreAndRank(d, Scores(Crit(d), weights, impacts))

\* the temporary file created and written before topsis() is called
AppIndexFileFirst(e, d, w_form, i_form) ==
    LET w_s == Strip(w_form)
        i_s == Strip(i_form)
    IN  IF e.file = "missing" THEN Stopped("error", "NoUpload")
        ELSE IF ~e.email_ok THEN Stopped("error", "BadEmail")
        ELSE LET p == AppParseWeightsImpacts(w_s, i_s)
             IN  IF p.kind # "none" THEN ParseStopped("error", p.kind)
                 ELSE IF e.file = "unreadable"
                 THEN [Stopped("error", "UnreadableFile") EXCEPT !.parse = "none"]
                 ELSE LET r == AppTopsis(d, p.weights, p.impacts)
                      IN  IF r.exc # "none"
                          THEN [ScoringStopped("error", r.kind, p.weights) EXCEPT
                                    !.written = TRUE]
                          ELSE IF ~e.smtp_ok
                          THEN [Written(r.out, p.weights) EXCEPT
                                    !.status = "error", !.kind = "SmtpCredentials"]
                          ELSE [Written(r.out, p.weights) EXCEPT !.emailed = TRUE]

\* index(), POST: every exception of the try block is caught and flashed; the
\* temporary file is created and written after topsis() returned, then mailed
AppIndex(e, d, w_form, i_form) ==
    LET w_s == Strip(w_form)
        i_s == Strip(i_form)
    IN  IF e.file = "missing" THEN Stopped("error", "NoUpload")
        ELSE IF ~e.email_ok THEN Stopped("error", "BadEmail")
        ELSE LET p == AppParseWeightsImpacts(w_s, i_s)
             IN  IF p.kind # "none" THEN ParseStopped("error", p.kind)
                 ELSE IF e.file = "unreadable"
                 THEN [Stopped("error", "UnreadableFile") EXCEPT !.parse = "none"]
                 ELSE LET r == AppTopsis(d, p.weights, p.impacts)
                      IN  IF r.exc # "none"
                          THEN ScoringStopped("error", r.kind, p.weights)
                          ELSE IF ~e.smtp_ok
                          THEN [Written(r.out, p.weights) EXCEPT
                                    !.status = "error", !.kind = "SmtpCredentials"]
                          ELSE [Written(r.out, p.weights) EXCEPT !.emailed = TRUE]

(***************************************************************************)
(* Inputs                                                                  *)
(***************************************************************************)
RECURSIVE Join(_)
Join(ts) == IF Len(ts) = 1 THEN ts[1] ELSE ts[1] \o <<",">> \o Join(Tail(ts))

Frame(headers, rows) == [headers |-> headers, rows |-> rows]

\* a table with an identifier column and numeric criteria m[i][j]
NumFrame(headers, m) ==
    Frame(headers,
          [i \in 1..Len(m) |->
              <<Str(ToString(i))>> \o [j \in 1..Len(m[i]) |-> Num(m[i][j])]])

PlainHeaders == <<"Model", "P1", "P2">>

OkEnv == [argc_ok |-> TRUE, file |-> "ok", email_ok |-> TRUE, smtp_ok |-> TRUE]

Input(e, d, w, i) == [env |-> e, df |-> d, weights_s |-> w, impacts_s |-> i]

\* every valid table of up to MaxRows rows and two criteria with cells 0..MaxVal,
\* with every pair of weights from {1, 2} and of impacts
EngineTables ==
    UNION {{NumFrame(PlainHeaders, m) : m \in [1..r -> [1..2 -> 0..MaxVal]]} :
              r \in 1..MaxRows}

EngineInputs ==
    {Input(OkEnv, d, Join(w), Join(i)) :
        d \in EngineTables,
        w \in SeqsOver({<<"1">>, <<"2">>}, 2),
        i \in SeqsOver(ImpactSymbols, 2)}

\* valid and invalid tables with every vector string of up to MaxTokens tokens,
\* a token being empty, well-formed or ill-formed
ValidationTables ==
    { NumFrame(PlainHeaders, <<<<1, 2>>, <<2, 1>>>>),
      NumFrame(<<"Model", "P1">>, <<<<1>>, <<2>>>>),
      Frame(PlainHeaders, <<<<Str("1"), Num(1), Str("abc")>>, <<Str("2"), Num(2), Num(1)>>>>),
      Frame(<<"Model", "P1">>, <<<<Str("1"), Str("abc")>>, <<Str("2"), Num(2)>>>>) }

TokenStrings(tokens) ==
    UNION {{Join(ts) : ts \in SeqsOver(tokens, n)} : n \in 1..MaxTokens}

ValidationInputs ==
    {Input(OkEnv, d, w, i) :
        d \in ValidationTables,
        w \in TokenStrings({<<>>, <<"1">>, <<"a">>}),
        i \in TokenStrings({<<>>, <<"+">>, <<"*">>})}

\* chosen vectors on plain tables (one of them fully tied, one with three
\* criteria): negative, zero, signed, padded and two-digit weights, empty tokens
\* inside a vector that has the right number of non-empty ones, a blank inside a
\* token, one token too many
PlainTables ==
    { NumFrame(PlainHeaders, <<<<1, 2>>, <<2, 1>>, <<2, 2>>>>),
      NumFrame(PlainHeaders, <<<<1, 1>>, <<1, 1>>, <<1, 1>>>>),
      NumFrame(<<"Model", "P1", "P2", "P3">>, <<<<1, 2, 0>>, <<2, 1, 1>>>>) }

SpecialWeights ==
    { <<"1", ",", "1">>, <<"1", ",", "-", "2">>, <<"-", "1", ",", "-", "2">>,
      <<"2", ",", "0">>, <<" ", "1", " ", ",", " ", "2">>, <<"+", "1", ",", "1", "0">>,
      <<"1", ",", ",", "2">>, <<"1", ",", "2", ",">>, <<"1", ",", " ", ",", "2">>,
      <<"1", ",", "2", ",", "1">>, <<"1", " ", "1", ",", "2">> }

SpecialImpacts ==
    { <<"+", ",", "+">>, <<"+", ",", "-">>, <<" ", "-", ",", "+", " ">>,
      <<"+", ",", ",", "-">>, <<"+", ",", "-", ",", "+">> }

VectorInputs ==
    {Input(OkEnv, d, w, i) : d \in PlainTables, w \in SpecialWeights, i \in SpecialImpacts}

\* tables whose headers collide with the names of the result columns
CollisionTables ==
    { NumFrame(<<"Model", "Topsis Score", "P2">>, <<<<1, 2>>, <<2, 1>>>>),
      NumFrame(<<"Rank", "P1", "P2">>, <<<<1, 2>>, <<2, 1>>>>),
      NumFrame(<<"Model", "Rank", "Topsis Score">>, <<<<1, 2>>, <<2, 2>>>>) }

CollisionInputs ==
    {Input(OkEnv, d, <<"1", ",", "2">>, Join(i)) :
        d \in CollisionTables, i \in SeqsOver(ImpactSymbols, 2)}

\* the surroundings of a run: arguments, input file, e-mail address, SMTP settings
Envs ==
    [argc_ok : BOOLEAN, file : {"ok", "missing", "unreadable"},
     email_ok : BOOLEAN, smtp_ok : BOOLEAN]

EnvInputs ==
    {Input(e, d, w, <<"+", ",", "+">>) :
        e \in Envs,
        d \in { NumFrame(PlainHeaders, <<<<1, 2>>, <<2, 1>>>>),
                NumFrame(<<"Model", "P1">>, <<<<1>>, <<2>>>>) },
        w \in { <<"1", ",", "1">>, <<"a", ",", "1">> }}

Inputs ==
    EngineInputs \cup ValidationInputs \cup VectorInputs \cup CollisionInputs \cup EnvInputs

(***************************************************************************)
(* The state machine: one invocation of one front-end on one input.  fe is *)
(* the front-end that was invoked ("none" before), outcome what it left.   *)
(***************************************************************************)
FrontEnds == {"cli", "script", "web"}

Init ==
    /\ \E x \in Inputs :
          /\ env = x.env
          /\ df = x.df
          /\ weights_s = x.weights_s
          /\ impacts_s = x.impacts_s
    /\ fe = "none"
    /\ outcome = NotRun

RunCli ==
    /\ fe = "none"
    /\ fe' = "cli"
    /\ outcome' = CliMain(env, df, weights_s, impacts_s)
    /\ UNCHANGED <<env, df, weights_s, impacts_s>>

RunScript ==
    /\ fe = "none"
    /\ fe' = "script"
    /\ outcome' = ScriptMain(env, df, weights_s, impacts_s)
    /\ UNCHANGED <<env, df, weights_s, impacts_s>>

RunWeb ==
    /\ fe = "none"
    /\ fe' = "web"
    /\ outcome' = AppIndex(env, df, weights_s, impacts_s)
    /\ UNCHANGED <<env, df, weights_s, impacts_s>>

Next == RunCli \/ RunScript \/ RunWeb

Spec == Init /\ [][Next]_vars

(***************************************************************************)
(* Vocabulary of the properties                                            *)
(***************************************************************************)
Ran == fe # "none"

Succeeded == outcome.status = "success"

\* the specification's DecisionTable: three or more columns, numeric criteria
ValidTable(d) ==
    /\ NCols(d) >= 3
    /\ \A i \in 1..NRows(d) : \A j \in 2..NCols(d) : d.rows[i][j].k = "num"

Tokens(str) == MapStrip(Split(str))

HasEmptyToken(str) == \E i \in 1..Len(Tokens(str)) : Tokens(str)[i] = <<>>

\* the specification's WeightVector and ImpactVector for n criteria, as strings
ValidVectors(w_s, i_s, n) ==
    /\ Len(Tokens(w_s)) = n
    /\ Len(Tokens(i_s)) = n
    /\ \A i \in 1..n : IsFloat(Tokens(w_s)[i]) /\ FloatOf(Tokens(w_s)[i]) >= 0
    /\ \A i \in 1..n : Tokens(i_s)[i] \in ImpactSymbols

ValidInput == env = OkEnv /\ ValidTable(df) /\ ValidVectors(weights_s, impacts_s, NCols(df) - 1)

FullyTied(d) ==
    \A i \in 1..NRows(d) : \A j \in 2..NCols(d) : d.rows[i][j] = d.rows[1][j]

RankOf == Column(outcome.out, "Rank")

ScoreOf == Column(outcome.out, "Topsis Score")

\* the vectors front-end f parses from the state's strings
ParsedBy(f) ==
    CASE f = "cli" -> CoreParseWeightsImpacts(weights_s, impacts_s)
      [] f = "script" -> ScriptParseWeightsImpacts(weights_s, impacts_s)
      [] f = "web" -> AppParseWeightsImpacts(Strip(weights_s), Strip(impacts_s))

(***************************************************************************)
(* C1: on a fully tied table (every row has the same criteria values) with *)
(* valid vectors the run completes without raising and every row gets the  *)
(* same score and Rank 1.                                                  *)
(***************************************************************************)
C1_TiedTableRankOne ==
    (Ran /\ ValidInput /\ FullyTied(df)) =>
        /\ Succeeded
        /\ \A i \in 1..NRows(df) : RankOf[i] = Num(1) /\ ScoreOf[i] = ScoreOf[1]

(***************************************************************************)
(* C2: for every valid table with matching vectors the Rank column is      *)
(* dense and 1-based: the ranks are exactly 1..K for K distinct scores,    *)
(* equal rank iff equal score, strictly higher score => strictly smaller   *)
(* rank.                                                                   *)
(***************************************************************************)
DenseRanking(scores, ranks) ==
    LET n == Len(scores)
        K == Cardinality({scores[i] : i \in 1..n})
    IN  /\ Len(ranks) = n
        /\ \A i \in 1..n : ranks[i].k = "num"
        /\ {ranks[i].a : i \in 1..n} = 1..K
        /\ \A i, j \in 1..n : (ranks[i] = ranks[j]) <=> (scores[i] = scores[j])
        /\ \A i, j \in 1..n : ScoreGreater(scores[i], scores[j]) => ranks[i].a < ranks[j].a

C2_RankDense ==
    (Ran /\ ValidInput) => (Succeeded /\ DenseRanking(ScoreOf, RankOf))

(***************************************************************************)
(* C3: whenever a vector string has a token that is empty after trimming   *)
(* (the empty string included), the vector parse of a run that reaches it  *)
(* ends with MalformedVectorSyntax; it never returns a shorter vector.     *)
(***************************************************************************)
C3_EmptyTokenRejected ==
    ( /\ outcome.parse # "notreached"
      /\ HasEmptyToken(weights_s) \/ HasEmptyToken(impacts_s) ) =>
        outcome.parse = "MalformedVectorSyntax"

(***************************************************************************)
(* C4: on the same table and vector strings the library (through cli.py),  *)
(* the script and the web handler all succeed or all fail with the same    *)
(* error kind: whichever front-end ran, its outcome is the outcome of each *)
(* of the three on this input.                                             *)
(***************************************************************************)
SameOutcome(x, y) == (x.status = "success") = (y.status = "success") /\ x.kind = y.kind

C4_FrontEndsAgree ==
    (Ran /\ env = OkEnv) =>
        /\ SameOutcome(outcome, CliMain(env, df, weights_s, impacts_s))
        /\ SameOutcome(outcome, ScriptMain(env, df, weights_s, impacts_s))
        /\ SameOutcome(outcome, AppIndex(env, df, weights_s, impacts_s))

(***************************************************************************)
(* C5: in every front-end, output (the CSV written, the temporary result   *)
(* file, the e-mail) exists only if every validation the front-end runs    *)
(* has passed: column count, numeric criteria, vector syntax and symbols,  *)
(* dimension match; a run that ends with a validation error has produced   *)
(* no output.                                                              *)
(***************************************************************************)
ValidationKinds ==
    {"TooFewColumns", "NonNumericCriterion", "MalformedVectorSyntax",
     "NonNumericWeight", "InvalidImpactSymbol", "DimensionMismatch"}

Produced == outcome.written \/ outcome.emailed \/ outcome.out # NoFrame

ChecksPass ==
    /\ NCols(df) >= 3
    /\ \A i \in 1..NRows(df) : \A j \in 2..NCols(df) : df.rows[i][j].k = "num"
    /\ ParsedBy(fe).kind = "none"
    /\ Len(ParsedBy(fe).weights) = NCols(df) - 1
    /\ Len(ParsedBy(fe).impacts) = NCols(df) - 1

C5_NoOutputBeforeValidation ==
    /\ Produced => (Ran /\ ChecksPass)
    /\ outcome.kind \in ValidationKinds => ~Produced

C5_Witness == fe = "web" /\ outcome.kind = "DimensionMismatch" /\ ~Produced

(***************************************************************************)
(* C6: whenever a result is produced for a valid input, it holds all       *)
(* original columns with their values, in the original column and row      *)
(* order, followed by exactly two new last columns, Topsis Score and Rank, *)
(* whatever the headers of the input are.                                  *)
(***************************************************************************)
C6_ColumnsPreserved ==
    (ValidInput /\ Succeeded) =>
        /\ outcome.out.headers = df.headers \o <<"Topsis Score", "Rank">>
        /\ NRows(outcome.out) = NRows(df)
        /\ \A i \in 1..NRows(df) :
              /\ Len(outcome.out.rows[i]) = NCols(df) + 2
              /\ SubSeq(outcome.out.rows[i], 1, NCols(df)) = df.rows[i]

(***************************************************************************)
(* C7: the weight vector a successful parse returns holds only numbers     *)
(* that are positive or zero: no result is ever scored and written with a  *)
(* negative weight.                                                        *)
(***************************************************************************)
C7_WeightsNonNegative ==
    outcome.written => \A i \in 1..Len(outcome.weights) : outcome.weights[i] >= 0

(***************************************************************************)
(* C8: for every valid table and every row whose distances to the          *)
(* ideal-best and ideal-worst points are not both zero, the score          *)
(* d_worst / (d_best + d_worst) is a number in [0, 1]; it is 1 exactly     *)
(* when the row coincides with the ideal-best point and 0 exactly when it  *)
(* coincides with the ideal-worst point.                                   *)
(***************************************************************************)
\* the run reached the arithmetic of the scoring function
Scored == outcome.parse = "none" /\ outcome.kind \in {"none", "IntCastingNaN"}

AtIdealBest(i) ==
    LET wt == Weighted(Crit(df), outcome.weights)
    IN  \A j \in 1..(NCols(df) - 1) : wt[i][j] = IdealBest(wt, ParsedBy(fe).impacts, j)

AtIdealWorst(i) ==
    LET wt == Weighted(Crit(df), outcome.weights)
    IN  \A j \in 1..(NCols(df) - 1) : wt[i][j] = IdealWorst(wt, ParsedBy(fe).impacts, j)

\* sqrt(a) / (sqrt(a) + sqrt(b)) is defined and in [0, 1]
InUnitInterval(c) == c.k = "score" /\ c.a >= 0 /\ c.b >= 0 /\ c.a + c.b > 0

IsOne(c) == c.k = "score" /\ c.b = 0 /\ c.a > 0

IsZero(c) == c.k = "score" /\ c.a = 0 /\ c.b > 0

ScaleColumn(d, j, c) ==
    [headers |-> d.headers,
     rows |-> [i \in 1..NRows(d) |->
                  [d.rows[i] EXCEPT ![j + 1] = Num(d.rows[i][j + 1].a * c)]]]

CheckOrder ==
    <<"TooFewColumns", "NonNumericCriterion", "MalformedVectorSyntax",
      "NonNumericWeight", "InvalidImpactSymbol", "DimensionMismatch">>

NonEmptyTokens(str) == SelectSeq(Tokens(str), LAMBDA t : t # <<>>)

Violates(rule) ==
    CASE rule = "TooFewColumns" -> NCols(df) < 3
      [] rule = "NonNumericCriterion" ->
            \E i \in 1..NRows(df) : \E j \in 2..NCols(df) : df.rows[i][j].k # "num"
      [] rule = "MalformedVectorSyntax" ->
            \/ ~Contains(weights_s, ",") \/ HasEmptyToken(weights_s)
            \/ ~Contains(impacts_s, ",") \/ HasEmptyToken(impacts_s)
      [] rule = "NonNumericWeight" ->
            \E i \in 1..Len(NonEmptyTokens(weights_s)) : ~IsFloat(NonEmptyTokens(weights_s)[i])
      [] rule = "InvalidImpactSymbol" ->
            \E i \in 1..Len(NonEmptyTokens(impacts_s)) :
                NonEmptyTokens(impacts_s)[i] \notin ImpactSymbols
      [] rule = "DimensionMismatch" ->
            \/ Len(Tokens(weights_s)) # NCols(df) - 1
            \/ Len(Tokens(impacts_s)) # NCols(df) - 1

ViolatedRules == {n \in 1..Len(CheckOrder) : Violates(CheckOrder[n])}

C10_FirstViolatedRuleReported ==
    (fe = "cli" /\ env.argc_ok /\ env.file = "ok" /\ ViolatedRules # {}) =>
        /\ outcome.status = "error"
        /\ outcome.kind =
              CheckOrder[CHOOSE n \in ViolatedRules : \A m \in ViolatedRules : n <= m]

====
